---------------------------- MODULE Spec2Model ----------------------------
(* A model of decorate-it (src/src/decorator.js): the validation wrapper,  *)
(* the logging wrapper, the serializer they share, the correlation counter *)
(* and the global configuration.                                           *)
EXTENDS Integers, Sequences, FiniteSets, TLC

(***************************************************************************)
(* Bounds of the model.                                                    *)
(***************************************************************************)
\* how many invocations of decorated operations one behaviour makes
MaxCalls == 2
\* how many configure and resetId calls one behaviour makes
MaxAdmin == 1

(***************************************************************************)
(* Runtime values.  Primitives carry their kind; objects and arrays live   *)
(* in Heap and are referred to by identity; functions have an identity too.*)
(***************************************************************************)
Undef == [k |-> "undef"]
Null == [k |-> "null"]
Num(n) == [k |-> "num", n |-> n]
Str(s) == [k |-> "str", s |-> s]
Ref(r) == [k |-> "ref", r |-> r]
Fn(r) == [k |-> "fn", r |-> r]
Err(s) == [k |-> "err", s |-> s]
Fld(n, v) == [n |-> n, v |-> v]
\* an object literal: its own enumerable fields in insertion order
Obj(f) == [k |-> "obj", f |-> f]
Arr(e) == [k |-> "arr", e |-> e]

\* the default of _config.depth
DefaultDepth == 4
\* the default of _config.maxArrayLength
DefaultMaxArrayLength == 30
\* the default of _config.removeFields
DefaultRemoveFields == {"password", "token", "accessToken"}

\* The objects the calls of the model pass around, by identity.
Heap ==
  <<  \* 1: const obj = { a: 1 }; obj.sub = obj;
      Obj(<<Fld("a", Num(1)), Fld("sub", Ref(1))>>),
      \* 2: _user = { id: 1, username: 'john' }
      Obj(<<Fld("id", Num(1)), Fld("username", Str("john"))>>),
      \* 3: credentials
      Obj(<<Fld("password", Str("secret")), Fld("n", Num(1))>>),
      \* 4: the same object under a plain and under a redacted name, nested
      Obj(<<Fld("inner", Ref(3)), Fld("token", Ref(3)), Fld("accessToken", Undef)>>),
      \* 5: new Array(DefaultMaxArrayLength + 1)
      Arr([i \in 1..(DefaultMaxArrayLength + 1) |-> Undef]),
      \* 6: a short array with a hole, a function and a shared object
      Arr(<<Num(1), Undef, Fn(1), Ref(2)>>),
      \* 7: an http request
      Obj(<<Fld("method", Str("GET")), Fld("url", Str("/users")),
            Fld("headers", Ref(8)), Fld("connection", Ref(9)),
            Fld("dummy", Num(123))>>),
      \* 8: its headers
      Obj(<<Fld("h1", Str("1")), Fld("token", Str("t"))>>),
      \* 9: its connection
      Obj(<<Fld("remoteAddress", Str("::1")), Fld("remotePort", Num(3000)),
            Fld("dummy", Num(123))>>),
      \* 10: an http response
      Obj(<<Fld("statusCode", Num(500)), Fld("_header", Str("123")),
            Fld("dummy", Num(123))>>),
      \* 11: { req: <7>, res: <10>, list: <5>, items: <6>, deep: <4>,
      \*       again: <5>, edge: <12> }
      Obj(<<Fld("req", Ref(7)), Fld("res", Ref(10)), Fld("list", Ref(5)),
            Fld("items", Ref(6)), Fld("deep", Ref(4)), Fld("again", Ref(5)),
            Fld("edge", Ref(12))>>),
      \* 12: an array of three numbers
      Arr(<<Num(1), Num(2), Num(3)>>) >>

\* value is an object in lodash's sense (_.isObject): object, array, function
IsObject(v) == v.k \in {"ref", "obj", "arr", "fn"}
\* the object a value denotes (a heap reference is followed)
Deref(v) == IF v.k = "ref" THEN Heap[v.r] ELSE v
IsArray(v) == Deref(v).k = "arr"
\* JavaScript truthiness of a value
Truthy(v) ==
  CASE v.k \in {"undef", "null"} -> FALSE
    [] v.k = "num" -> v.n # 0
    [] v.k = "str" -> v.s # ""
    [] OTHER -> TRUE

RECURSIVE FieldAt(_, _)
\* value.name for an object's field list: undefined when there is none
FieldAt(f, name) ==
  IF f = <<>> THEN Undef
  ELSE IF f[Len(f)].n = name THEN f[Len(f)].v
  ELSE FieldAt(SubSeq(f, 1, Len(f) - 1), name)

\* value.name in JavaScript for a value that is not null or undefined
Get(v, name) ==
  LET o == Deref(v)
  IN  IF o.k = "obj" THEN FieldAt(o.f, name) ELSE Undef

\* obj[key] = val on a field list: an existing key keeps its place
Put(f, key, val) ==
  IF \E i \in 1..Len(f) : f[i].n = key
  THEN [i \in 1..Len(f) |-> IF f[i].n = key THEN Fld(key, val) ELSE f[i]]
  ELSE Append(f, Fld(key, val))


(***************************************************************************)
(* The serializer: _sanitizeObject is JSON.parse(JSON.stringify(obj, fn)), *)
(* modelled as the tree JSON.parse returns.  JSON.stringify calls the      *)
(* replacer once per property, depth first in field order, and the list    *)
(* seen lives for one _sanitizeObject call.                                *)
(***************************************************************************)
\* what JSON.stringify yields for a property it leaves out (undefined)
Omit == [k |-> "omit"]
Circular == Str("[Circular]")
Removed == Str("<removed>")

\* seen.indexOf(value) !== -1 (strict equality: only identities can match)
InSeen(value, seen) ==
  /\ value.k \in {"ref", "fn"}
  /\ \E i \in 1..Len(seen) : seen[i] = value

\* the entry seen.push(value) adds: the identity of the object
Ident(value) == IF value.k \in {"ref", "fn"} THEN value ELSE [k |-> "fresh"]

\* the object the replacer returns for a field named req
ReqProjection(value) ==
  Obj(<<Fld("method", Get(value, "method")),
        Fld("url", Get(value, "url")),
        Fld("headers", Get(value, "headers")),
        Fld("remoteAddress", Get(Get(value, "connection"), "remoteAddress")),
        Fld("remotePort", Get(Get(value, "connection"), "remotePort"))>>)

\* the object the replacer returns for a field named res
ResProjection(value) ==
  Obj(<<Fld("statusCode", Get(value, "statusCode")),
        Fld("header", Get(value, "_header"))>>)

\* ReplaceRules redacting only values that are no objects
ReplaceRules_RedactsPrimitivesOnly(cfg, name, value) ==
  IF name \in cfg.removeFields /\ ~IsObject(value) THEN Removed
  ELSE IF name = "req" /\ Truthy(value) /\ Truthy(Get(value, "connection"))
  THEN ReqProjection(value)
  ELSE IF name = "res" /\ Truthy(value) /\ Truthy(Get(value, "statusCode"))
  THEN ResProjection(value)
  ELSE IF IsArray(value) /\ Len(Deref(value).e) > cfg.maxArrayLength
  THEN Str("Array(" \o ToString(Len(Deref(value).e)) \o ")")
  ELSE value

\* ReplaceRules truncating an array from maxArrayLength elements on
ReplaceRules_TruncatesAtLimit(cfg, name, value) ==
  IF name \in cfg.removeFields THEN Removed
  ELSE IF name = "req" /\ Truthy(value) /\ Truthy(Get(value, "connection"))
  THEN ReqProjection(value)
  ELSE IF name = "res" /\ Truthy(value) /\ Truthy(Get(value, "statusCode"))
  THEN ResProjection(value)
  ELSE IF IsArray(value) /\ Len(Deref(value).e) >= cfg.maxArrayLength
  THEN Str("Array(" \o ToString(Len(Deref(value).e)) \o ")")
  ELSE value

\* the replacer's checks after the cycle check, in the order of the code
ReplaceRules(cfg, name, value) ==
  IF name \in cfg.removeFields THEN Removed
  ELSE IF name = "req" /\ Truthy(value) /\ Truthy(Get(value, "connection"))
  THEN ReqProjection(value)
  ELSE IF name = "res" /\ Truthy(value) /\ Truthy(Get(value, "statusCode"))
  THEN ResProjection(value)
  ELSE IF IsArray(value) /\ Len(Deref(value).e) > cfg.maxArrayLength
  THEN Str("Array(" \o ToString(Len(Deref(value).e)) \o ")")
  ELSE value

\* a replacer that tests removeFields before the cycle check
replacer_RedactsFirst(cfg, name, value, seen) ==
  IF name \in cfg.removeFields
  THEN [v |-> Removed,
        seen |-> IF IsObject(value) /\ ~InSeen(value, seen)
                 THEN Append(seen, Ident(value)) ELSE seen]
  ELSE IF InSeen(value, seen)
  THEN [v |-> Circular, seen |-> seen]
  ELSE [v |-> ReplaceRules(cfg, name, value),
        seen |-> IF IsObject(value) THEN Append(seen, Ident(value)) ELSE seen]

\* the replacer: the value to serialize in place of value, and seen after
replacer(cfg, name, value, seen) ==
  IF InSeen(value, seen)
  THEN [v |-> Circular, seen |-> seen]
  ELSE [v |-> ReplaceRules(cfg, name, value),
        seen |-> IF IsObject(value) THEN Append(seen, Ident(value)) ELSE seen]

\* Body applied to the value of e
Let(e, Body(_)) == CHOOSE y \in {Body(x) : x \in {e}} : TRUE

RECURSIVE SerProp(_, _, _, _), SerFields(_, _, _, _, _), SerElems(_, _, _, _, _)
\* SerializeJSONProperty followed by JSON.parse: the tree of one property
\* (Omit when JSON.stringify yields undefined), and seen after it
SerProp(cfg, name, value, seen) ==
  Let(replacer(cfg, name, value, seen),
      LAMBDA r :
        CASE r.v.k \in {"undef", "fn"} -> [t |-> Omit, seen |-> r.seen]
          [] r.v.k \in {"null", "num", "str"} -> [t |-> r.v, seen |-> r.seen]
          [] IsArray(r.v) -> SerElems(cfg, Deref(r.v).e, 1, r.seen, <<>>)
          [] OTHER -> SerFields(cfg, Deref(r.v).f, 1, r.seen, <<>>))

\* SerializeJSONObject: the fields from the i-th on; an Omit field is left out
SerFields(cfg, f, i, seen, acc) ==
  IF i > Len(f) THEN [t |-> Obj(acc), seen |-> seen]
  ELSE Let(SerProp(cfg, f[i].n, f[i].v, seen),
           LAMBDA r :
             Let(IF r.t = Omit THEN acc ELSE Append(acc, Fld(f[i].n, r.t)),
                 LAMBDA acc2 : SerFields(cfg, f, i + 1, r.seen, acc2)))

\* SerializeJSONArray: the elements from the i-th on; an Omit element is null
SerElems(cfg, e, i, seen, acc) ==
  IF i > Len(e) THEN [t |-> Arr(acc), seen |-> seen]
  ELSE Let(SerProp(cfg, ToString(i - 1), e[i], seen),
           LAMBDA r :
             Let(Append(acc, IF r.t = Omit THEN Null ELSE r.t),
                 LAMBDA acc2 : SerElems(cfg, e, i + 1, r.seen, acc2)))

\* _sanitizeObject: ok with the sanitized tree t, or the SyntaxError that
\* JSON.parse(undefined) throws when JSON.stringify yields undefined
_sanitizeObject(cfg, obj) ==
  IF obj = Undef THEN [ok |-> TRUE, t |-> Undef]
  ELSE LET r == SerProp(cfg, "", obj, <<>>)
       IN  IF r.t = Omit
           THEN [ok |-> FALSE, t |-> Err("SyntaxError")]
           ELSE [ok |-> TRUE, t |-> r.t]

RECURSIVE Inspect(_, _, _)
\* util.inspect(tree, { depth }): objects nested deeper than depth are opaque
Inspect(t, level, depth) ==
  CASE t.k = "obj" ->
         IF level > depth THEN [k |-> "opaque", s |-> "[Object]"]
         ELSE Obj([i \in 1..Len(t.f) |->
                     Fld(t.f[i].n, Inspect(t.f[i].v, level + 1, depth))])
    [] t.k = "arr" ->
         IF level > depth THEN [k |-> "opaque", s |-> "[Array]"]
         ELSE Arr([i \in 1..Len(t.e) |-> Inspect(t.e[i], level + 1, depth)])
    [] OTHER -> t

\* a log payload that is the text util.inspect made of a tree
Text(t) == [k |-> "text", t |-> t]
\* a log payload that is a string literal of the code
Lit(s) == [k |-> "lit", s |-> s]

\* _serializeObject: ok with the text, or the error _sanitizeObject threw
_serializeObject(cfg, obj) ==
  LET s == _sanitizeObject(cfg, obj)
  IN  IF s.ok THEN [ok |-> TRUE, t |-> Text(Inspect(s.t, 0, cfg.depth))]
      ELSE s

\* _combineObject: the mapping of arr's values by params' names; an index
\* past params reads params[i] === undefined, the key 'undefined'
RECURSIVE CombineFrom(_, _, _, _)
CombineFrom(params, arr, i, ret) ==
  IF i > Len(arr) THEN ret
  ELSE CombineFrom(params, arr, i + 1,
                   Put(ret, IF i <= Len(params) THEN params[i] ELSE "undefined",
                       arr[i]))

_combineObject(params, arr) == Obj(CombineFrom(params, arr, 1, <<>>))


(***************************************************************************)
(* The decorated operations and the argument lists they are called with.   *)
(***************************************************************************)
\* one key of a Joi schema: Joi.number(), Joi.string() or Joi.any()
Key(n, type, required) == [n |-> n, type |-> type, required |-> required]

MethodNames ==
  {"add", "addSync", "getValue", "getUser", "hashPassword", "getToken",
   "echo", "fetch", "invert"}

\* methodName, params, schema, sync and removeOutput of each operation
Methods ==
  [m \in MethodNames |->
     CASE m = "add" ->
            [params |-> <<"a", "b">>,
             schema |-> <<Key("a", "number", TRUE), Key("b", "number", TRUE)>>,
             sync |-> FALSE, removeOutput |-> FALSE]
       [] m = "addSync" ->
            [params |-> <<"a", "b">>,
             schema |-> <<Key("a", "number", TRUE), Key("b", "number", TRUE)>>,
             sync |-> TRUE, removeOutput |-> FALSE]
       [] m = "getValue" ->
            [params |-> <<>>, schema |-> <<>>,
             sync |-> FALSE, removeOutput |-> FALSE]
       [] m = "getUser" ->
            [params |-> <<"id">>,
             schema |-> <<Key("id", "number", TRUE)>>,
             sync |-> FALSE, removeOutput |-> FALSE]
       [] m = "hashPassword" ->
            [params |-> <<"password">>,
             schema |-> <<Key("password", "string", TRUE)>>,
             sync |-> FALSE, removeOutput |-> TRUE]
       [] m = "getToken" ->
            [params |-> <<"id">>,
             schema |-> <<Key("id", "number", TRUE)>>,
             sync |-> FALSE, removeOutput |-> TRUE]
       [] m = "echo" ->
            [params |-> <<"obj", "token">>,
             schema |-> <<Key("obj", "any", FALSE), Key("token", "any", FALSE)>>,
             sync |-> FALSE, removeOutput |-> FALSE]
       [] m = "fetch" ->
            [params |-> <<"obj">>,
             schema |-> <<Key("obj", "any", FALSE)>>,
             sync |-> FALSE, removeOutput |-> FALSE]
       [] m = "invert" ->
            [params |-> <<"a">>,
             schema |-> <<Key("a", "number", TRUE)>>,
             sync |-> TRUE, removeOutput |-> FALSE]]

\* the positional arguments the callers of the model pass
ArgLists(m) ==
  CASE m = "add" -> {<<Str("1"), Str("2")>>, <<Str("1"), Ref(2)>>}
    [] m = "addSync" -> {<<Num(1), Num(2)>>, <<Num(1), Num(2), Num(0)>>}
    [] m = "getValue" -> {<<>>, <<Num(7)>>}
    [] m = "getUser" -> {<<Num(1)>>, <<Num(2)>>}
    [] m = "hashPassword" -> {<<Str("secret")>>}
    [] m = "getToken" -> {<<Num(1)>>}
    [] m = "echo" ->
         {<<Ref(1), Ref(2)>>, <<Ref(2), Ref(2)>>, <<Ref(11), Str("t")>>,
          <<Fn(1), Fn(1)>>}
    [] m = "fetch" -> {<<Fn(1)>>}
    [] m = "invert" -> {<<Num(0)>>, <<Num(2)>>}

\* the outcome of an original function: it returns or throws, or it returns
\* a promise that resolves or rejects
Outcome(kind, val) == [kind |-> kind, val |-> val]

\* a + b in JavaScript
Plus(a, b) ==
  IF a.k = "num" /\ b.k = "num" THEN Num(a.n + b.n) ELSE Str("concatenated")

\* args[i], undefined past the end
Arg(args, i) == IF i <= Len(args) THEN args[i] ELSE Undef

\* the original functions
Original(m, args) ==
  CASE m \in {"add", "addSync"} ->
         Outcome("return", Plus(Arg(args, 1), Arg(args, 2)))
    [] m = "getValue" -> Outcome("return", Num(1))
    [] m = "getUser" ->
         IF Arg(args, 1) = Num(1) THEN Outcome("resolve", Ref(2))
         ELSE Outcome("reject", Err("User not found"))
    [] m = "hashPassword" -> Outcome("return", Str("ba817ef716"))
    [] m = "getToken" -> Outcome("resolve", Str("ba817ef716"))
    [] m = "echo" -> Outcome("return", Arg(args, 1))
    [] m = "fetch" -> Outcome("resolve", Arg(args, 1))
    [] m = "invert" ->
         IF Arg(args, 1) = Num(0) THEN Outcome("throw", Err("Division by zero"))
         ELSE Outcome("return", Arg(args, 1))

(***************************************************************************)
(* Joi.attempt(value, schema): the normalized mapping, or the              *)
(* ValidationError naming the offending key.                               *)
(***************************************************************************)
NumericStrings == {"0", "1", "2"}
\* Number(s) of a numeric string
ParseNumber(s) == CASE s = "0" -> 0 [] s = "1" -> 1 [] s = "2" -> 2

ValidationError(key, what) == Err("ValidationError: " \o key \o " " \o what)

\* one schema key against the value of that key: ok with the converted
\* value, or the error
JoiKey(key, v) ==
  IF v = Undef
  THEN IF key.required
       THEN [ok |-> FALSE, e |-> ValidationError(key.n, "is required")]
       ELSE [ok |-> TRUE, v |-> v]
  ELSE CASE key.type = "number" ->
              IF v.k = "num" THEN [ok |-> TRUE, v |-> v]
              ELSE IF v.k = "str" /\ v.s \in NumericStrings
              THEN [ok |-> TRUE, v |-> Num(ParseNumber(v.s))]
              ELSE [ok |-> FALSE, e |-> ValidationError(key.n, "must be a number")]
         [] key.type = "string" ->
              IF v.k = "str" THEN [ok |-> TRUE, v |-> v]
              ELSE [ok |-> FALSE, e |-> ValidationError(key.n, "must be a string")]
         [] OTHER -> [ok |-> TRUE, v |-> v]

RECURSIVE JoiKeys(_, _, _)
\* the schema's keys from the i-th on, over the mapping's fields f
JoiKeys(f, schema, i) ==
  IF i > Len(schema)
  THEN IF \E j \in 1..Len(f) : \A h \in 1..Len(schema) : schema[h].n # f[j].n
       THEN LET j == CHOOSE j \in 1..Len(f) :
                       /\ \A h \in 1..Len(schema) : schema[h].n # f[j].n
                       /\ \A g \in 1..(j - 1) :
                            \E h \in 1..Len(schema) : schema[h].n = f[g].n
            IN  [ok |-> FALSE, e |-> ValidationError(f[j].n, "is not allowed")]
       ELSE [ok |-> TRUE, v |-> Obj(f)]
  ELSE LET r == JoiKey(schema[i], FieldAt(f, schema[i].n))
       IN  IF ~r.ok THEN r
           ELSE JoiKeys(IF r.v = Undef THEN f ELSE Put(f, schema[i].n, r.v),
                        schema, i + 1)

JoiAttempt(value, schema) == JoiKeys(value.f, schema, 1)

(***************************************************************************)
(* validate(method): the validation wrapper.                               *)
(***************************************************************************)
\* what a wrapper's call comes to, with whether the original function was
\* invoked and the arguments it got
Result(kind, val, invoked, invArgs) ==
  [kind |-> kind, val |-> val, invoked |-> invoked, invArgs |-> invArgs]

\* ValidationFailure without the sync flag: Joi.attempt's throw escapes
ValidationFailure_AlwaysThrows(sync, e) == Result("throw", e, FALSE, <<>>)

\* the channel a validation failure leaves by
ValidationFailure(sync, e) ==
  IF sync THEN Result("throw", e, FALSE, <<>>)
  ELSE Result("reject", e, FALSE, <<>>)

\* newArgs: normalized[param] for each declared parameter, in order
NewArgs(params, normalized) ==
  [i \in 1..Len(params) |-> FieldAt(normalized.f, params[i])]

validateDecorator(m, args) ==
  LET params == Methods[m].params
      value == _combineObject(params, args)
      att == JoiAttempt(value, Methods[m].schema)
  IN  IF ~att.ok THEN ValidationFailure(Methods[m].sync, att.e)
      ELSE LET newArgs == NewArgs(params, att.v)
               o == Original(m, newArgs)
           IN  Result(o.kind, o.val, TRUE, newArgs)


(***************************************************************************)
(* The state: the correlation counter, the global configuration, the       *)
(* calls made on the logger, and the invocations with what their callers   *)
(* have observed so far.                                                   *)
(***************************************************************************)
\* reset: resetId has been called since the last invocation; admin counts
\* the resetId and configure calls made
VARIABLES _seqId, _config, logs, calls, reset, admin

vars == <<_seqId, _config, logs, calls, reset, admin>>

\* logger.debug({ id }, label + methodName + ':', payload), by invocation
\* inv, its payload made under configuration cfg
DebugRecord(cfg, id, label, m, payload, inv) ==
  [level |-> "debug", ctx |-> <<id>>, label |-> label, method |-> m,
   input |-> <<>>, payload |-> payload, inv |-> inv,
   removeFields |-> cfg.removeFields]

\* logger.error(e): no context object, no label
RawErrorRecord(e, inv) ==
  [level |-> "error", ctx |-> <<>>, label |-> "", method |-> "",
   input |-> <<>>, payload |-> e, inv |-> inv, removeFields |-> {}]

\* logger.error({ id }, `ERROR ${methodName}: ${formattedInput} \n`, e)
ErrorRecord(id, m, formattedInput, e, inv) ==
  [level |-> "error", ctx |-> <<id>>, label |-> "ERROR", method |-> m,
   input |-> <<formattedInput>>, payload |-> e, inv |-> inv,
   removeFields |-> {}]

\* what the code puts in the context of the error record of a synchronous
\* throw
SyncThrowRecord(id, e, inv) == RawErrorRecord(e, inv)

\* formattedOutput of a logExit that ignores removeOutput
FormattedOutput_AlwaysSerializes(cfg, removeOutput, output) ==
  _serializeObject(cfg, output)

\* formattedOutput of logExit
FormattedOutput(cfg, removeOutput, output) ==
  IF removeOutput THEN [ok |-> TRUE, t |-> Lit("<removed>")]
  ELSE _serializeObject(cfg, output)

\* formattedInput of logDecorator
FormattedInput(cfg, params, args) ==
  IF Len(params) > 0 THEN _serializeObject(cfg, _combineObject(params, args))
  ELSE [ok |-> TRUE, t |-> Lit("{ }")]

\* an id read from _seqId without the increment
NextId_NoIncrement(seq) == seq

\* ++_seqId
NextId(seq) == seq + 1

\* one invocation, as its caller sees it: st is returned, threw, pending,
\* resolved or rejected, val the value or error received; orig is what the
\* wrapped function came to, fin the formattedInput of the closure, fresh
\* whether resetId was called since the invocation before
Invocation(m, args, id, st, val, r, fin) ==
  [m |-> m, args |-> args, id |-> id, st |-> st, val |-> val,
   invoked |-> r.invoked, invArgs |-> r.invArgs,
   orig |-> Outcome(r.kind, r.val), fin |-> fin, fresh |-> FALSE]

Init ==
  /\ _seqId = 0
  /\ _config = [removeFields |-> DefaultRemoveFields, depth |-> DefaultDepth,
                maxArrayLength |-> DefaultMaxArrayLength]
  /\ logs = <<>>
  /\ calls = <<>>
  /\ reset = FALSE
  /\ admin = 0

\* what one run of a handler does: the records it logs and the invocation
\* as its caller sees it afterwards
Step(records, call) == [records |-> records, call |-> call]

\* logDecorator after the ENTER record: method(...args) and what follows
Invoke(cfg, id, m, args, inv, fin, enter) ==
  Let(validateDecorator(m, args),
      LAMBDA r :
        CASE r.kind = "throw" ->
               Step(<<enter, SyncThrowRecord(id, r.val, inv)>>,
                    Invocation(m, args, id, "threw", r.val, r, fin))
          [] r.kind \in {"resolve", "reject"} ->
               Step(<<enter>>,
                    Invocation(m, args, id, "pending", Undef, r, fin))
          [] OTHER ->
               Let(FormattedOutput(cfg, Methods[m].removeOutput, r.val),
                   LAMBDA out :
                     IF out.ok
                     THEN Step(<<enter, DebugRecord(cfg, id, "EXIT", m, out.t, inv)>>,
                               Invocation(m, args, id, "returned", r.val, r, fin))
                     ELSE Step(<<enter>>,
                               Invocation(m, args, id, "threw", out.t, r, fin))))

\* logDecorator(...args) up to its return or throw, as invocation inv with
\* correlation id id
logDecorator(cfg, id, m, args, inv) ==
  Let(FormattedInput(cfg, Methods[m].params, args),
      LAMBDA fin :
        IF ~fin.ok
        THEN Step(<<>>, Invocation(m, args, id, "threw", fin.t,
                                   Result("none", Undef, FALSE, <<>>), Lit("")))
        ELSE Invoke(cfg, id, m, args, inv, fin.t,
                    DebugRecord(cfg, id, "ENTER", m, fin.t, inv)))

\* a call of a decorated operation
Call(m, args) ==
  /\ Len(calls) < MaxCalls
  /\ _seqId' = NextId(_seqId)
  /\ \E s \in {logDecorator(_config, NextId(_seqId), m, args, Len(calls) + 1)} :
       /\ logs' = logs \o s.records
       /\ calls' = Append(calls, [s.call EXCEPT !.fresh = reset])
  /\ reset' = FALSE
  /\ UNCHANGED <<_config, admin>>

\* continuations that read the id from the counter when they run instead
\* of the id of their closure
Continuation_ReadsCounter(cfg, c, inv) ==
  Let(IF c.orig.kind = "resolve"
      THEN FormattedOutput(cfg, Methods[c.m].removeOutput, c.orig.val)
      ELSE [ok |-> FALSE, t |-> c.orig.val],
      LAMBDA out :
        IF out.ok
        THEN Step(<<DebugRecord(cfg, _seqId, "EXIT", c.m, out.t, inv)>>,
                  [c EXCEPT !.st = "resolved", !.val = c.orig.val])
        ELSE Step(<<ErrorRecord(_seqId, c.m, c.fin, out.t, inv)>>,
                  [c EXCEPT !.st = "rejected", !.val = out.t]))

\* the continuations logDecorator attached to the promise of invocation c:
\* then(logExit), then catch(logger.error; throw e)
Continuation(cfg, c, inv) ==
  Let(IF c.orig.kind = "resolve"
      THEN FormattedOutput(cfg, Methods[c.m].removeOutput, c.orig.val)
      ELSE [ok |-> FALSE, t |-> c.orig.val],
      LAMBDA out :
        IF out.ok
        THEN Step(<<DebugRecord(cfg, c.id, "EXIT", c.m, out.t, inv)>>,
                  [c EXCEPT !.st = "resolved", !.val = c.orig.val])
        ELSE Step(<<ErrorRecord(c.id, c.m, c.fin, out.t, inv)>>,
                  [c EXCEPT !.st = "rejected", !.val = out.t]))

\* the promise of invocation i settles
Settle(i) ==
  /\ i \in 1..Len(calls)
  /\ calls[i].st = "pending"
  /\ \E s \in {Continuation(_config, calls[i], i)} :
       /\ logs' = logs \o s.records
       /\ calls' = [calls EXCEPT ![i] = s.call]
  /\ UNCHANGED <<_seqId, _config, reset, admin>>

\* resetId()
resetId ==
  /\ admin < MaxAdmin
  /\ _seqId' = 0
  /\ reset' = TRUE
  /\ admin' = admin + 1
  /\ UNCHANGED <<_config, logs, calls>>

\* the option objects the model passes to configure: a partial one, which
\* names depth and maxArrayLength and leaves removeFields alone
ConfigureOpts ==
  {[depth |-> 1, maxArrayLength |-> 3]}

\* a replacement of _config by opts instead of a merge: a key opts does not
\* name is undefined afterwards (no field is redacted, util.inspect falls
\* back to its own depth of 2, no array is longer than undefined)
Extend_Replaces(cfg, opts) ==
  [key \in DOMAIN cfg |->
     IF key \in DOMAIN opts THEN opts[key]
     ELSE CASE key = "removeFields" -> {}
            [] key = "depth" -> 2
            [] OTHER -> 1000]

\* _.extend(_config, opts)
Extend(cfg, opts) ==
  [key \in DOMAIN cfg |-> IF key \in DOMAIN opts THEN opts[key] ELSE cfg[key]]

\* configure(opts)
configure(opts) ==
  /\ admin < MaxAdmin
  /\ _config' = Extend(_config, opts)
  /\ admin' = admin + 1
  /\ UNCHANGED <<_seqId, logs, calls, reset>>

Next ==
  \/ \E m \in MethodNames : \E args \in ArgLists(m) : Call(m, args)
  \/ \E i \in 1..MaxCalls : Settle(i)
  \/ resetId
  \/ \E opts \in ConfigureOpts : configure(opts)

Spec == Init /\ [][Next]_vars


(***************************************************************************)
(* Properties.                                                             *)
(***************************************************************************)
Invs == 1..Len(calls)
Completed(i) == calls[i].st # "pending"
\* the positions in logs of the records invocation i emitted
RecordsOf(i) == {j \in 1..Len(logs) : logs[j].inv = i}
EnterRecords(i) == {j \in RecordsOf(i) : logs[j].label = "ENTER"}
ExitRecords(i) == {j \in RecordsOf(i) : logs[j].label = "EXIT"}
ErrorRecords(i) == {j \in RecordsOf(i) : logs[j].level = "error"}
TerminalRecords(i) == ExitRecords(i) \cup ErrorRecords(i)
\* the named mapping of invocation i's arguments
Named(i) == _combineObject(Methods[calls[i].m].params, calls[i].args)
\* the arguments of invocation i violate the schema of its operation
Violates(i) == ~JoiAttempt(Named(i), Methods[calls[i].m].schema).ok
\* the elements of a sequence
Range(q) == {q[j] : j \in 1..Len(q)}

\* C1: every invocation allocates one correlation id and emits exactly one
\* ENTER record with it; once the invocation has completed, exactly one
\* terminal record (EXIT or ERROR) has been emitted, and it carries that id.
C1_OneEnterOneTerminalSameId ==
  \A i \in Invs :
    /\ Cardinality(EnterRecords(i)) = 1
    /\ \A j \in EnterRecords(i) : logs[j].ctx = <<calls[i].id>>
    /\ Completed(i) =>
         /\ Cardinality(TerminalRecords(i)) = 1
         /\ \A j \in TerminalRecords(i) : logs[j].ctx = <<calls[i].id>>
    /\ ~Completed(i) => TerminalRecords(i) = {}

\* C2: when the arguments satisfy the schema and the original function
\* returns synchronously, the decorated wrapper returns exactly the value
\* the original function returns for the normalized arguments in declared
\* order.
C2_SyncReturnValuePreserved ==
  \A i \in Invs :
    LET m == calls[i].m
        att == JoiAttempt(Named(i), Methods[m].schema)
    IN  (att.ok /\ Original(m, NewArgs(Methods[m].params, att.v)).kind = "return")
        => /\ calls[i].st = "returned"
           /\ calls[i].val = Original(m, NewArgs(Methods[m].params, att.v)).val

\* C3: when the wrapped operation itself throws or rejects, an error-level
\* record carrying the invocation's correlation id is emitted, no EXIT
\* record is, and the caller gets the identical error by the same channel.
C3_OperationFailureLoggedWithId ==
  \A i \in Invs :
    (Completed(i) /\ calls[i].invoked /\ calls[i].orig.kind \in {"throw", "reject"})
    => /\ \E j \in ErrorRecords(i) :
            /\ logs[j].ctx = <<calls[i].id>>
            /\ logs[j].payload = calls[i].orig.val
       /\ ExitRecords(i) = {}
       /\ calls[i].val = calls[i].orig.val
       /\ calls[i].st = IF calls[i].orig.kind = "throw" THEN "threw" ELSE "rejected"

C5_PlainSyncFunctionThrowsValidationError ==
  \A i \in Invs :
    (calls[i].m = "add" /\ Violates(i)) => calls[i].st = "threw"

\* C6: serialization never raises: the caller of a decorated operation sees
\* a throw or a rejection only when the wrapped operation threw or rejected
\* (with that error), and every completed invocation has its EXIT or ERROR
\* record.
C6_SerializerNeverRaises ==
  \A i \in Invs :
    /\ calls[i].st = "threw" => calls[i].orig.kind = "throw"
    /\ calls[i].st = "rejected" =>
         calls[i].orig.kind = "reject" /\ calls[i].val = calls[i].orig.val
    /\ Completed(i) => TerminalRecords(i) # {}

\* C7: with no resetId in between, each invocation's correlation id is one
\* more than the previous invocation's; the first invocation and the first
\* one after a resetId get id 1.
C7_IdsIncreaseByOne ==
  \A i \in Invs :
    IF i > 1 /\ ~calls[i].fresh
    THEN calls[i].id = calls[i - 1].id + 1
    ELSE calls[i].id = 1

\* a failed synchronous invocation followed, with no reset, by an
\* asynchronous one of another operation
C7_Witness ==
  /\ Len(calls) = 2
  /\ ~calls[2].fresh
  /\ calls[1].st = "threw" /\ calls[2].st \in {"pending", "resolved"}
  /\ calls[1].m # calls[2].m
  /\ calls[2].id = 2

RECURSIVE RedactedAs(_, _, _)
\* in the rendered tree t, every field named in rf has a value in markers
RedactedAs(t, rf, markers) ==
  CASE t.k = "obj" ->
         \A j \in 1..Len(t.f) :
           /\ t.f[j].n \in rf => t.f[j].v \in markers
           /\ RedactedAs(t.f[j].v, rf, markers)
    [] t.k = "arr" -> \A j \in 1..Len(t.e) : RedactedAs(t.e[j], rf, markers)
    [] OTHER -> TRUE

RECURSIVE HasField(_, _, _, _)
\* the rendered tree t has, level objects down, a field n with value v
HasField(t, level, n, v) ==
  CASE t.k = "obj" ->
         \E j \in 1..Len(t.f) :
           \/ level = 1 /\ t.f[j] = Fld(n, v)
           \/ level > 1 /\ HasField(t.f[j].v, level - 1, n, v)
    [] OTHER -> FALSE

\* the records whose payload is a serialized snapshot
Snapshots == {j \in 1..Len(logs) : logs[j].payload.k = "text"}

\* C8 as stated: in every serialized snapshot, every field whose name is in
\* removeFields is rendered '<removed>', whatever its value.
C8_RedactedFieldsAlwaysRemoved ==
  \A j \in Snapshots :
    RedactedAs(logs[j].payload.t, logs[j].removeFields, {Removed})

\* C8 amended: in every serialized snapshot, a field whose name is in
\* removeFields is rendered '<removed>', or '[Circular]' when its value is
\* an object or function the same pass had already visited; it is
\* '<removed>' whenever the value is no object, and whenever it is the first
\* field of the named mapping.
C8_RedactedFieldsRemovedOrCircular ==
  /\ \A j \in Snapshots :
       RedactedAs(logs[j].payload.t, logs[j].removeFields, {Removed, Circular})
  /\ \A i \in Invs : \A j \in EnterRecords(i) :
       \A h \in 1..Len(calls[i].args) :
         LET params == Methods[calls[i].m].params
         IN  ( /\ h <= Len(params)
               /\ params[h] \in logs[j].removeFields
               /\ ~IsObject(calls[i].args[h]) \/ h = 1 )
             => HasField(logs[j].payload.t, 1, params[h], Removed)

\* snapshots have been logged with a redacted field holding a string, one
\* holding undefined two objects down, one holding an object inside another
\* object, and one holding an object the pass had visited before
C8_Witness ==
  /\ \E j \in Snapshots : HasField(logs[j].payload.t, 1, "token", Removed)
  /\ \E j \in Snapshots : HasField(logs[j].payload.t, 3, "accessToken", Removed)
  /\ \E j \in Snapshots : HasField(logs[j].payload.t, 4, "password", Removed)
  /\ \E j \in Snapshots : HasField(logs[j].payload.t, 3, "token", Circular)

\* C9: for an operation with removeOutput, the EXIT record's payload is the
\* literal '<removed>' on the synchronous and on the resolved-promise path,
\* no record of the invocation but ENTER carries serialized text, and the
\* caller receives the original function's result.
C9_RemoveOutputHidesResult ==
  \A i \in Invs :
    (Methods[calls[i].m].removeOutput /\ calls[i].st \in {"returned", "resolved"})
    => /\ Cardinality(ExitRecords(i)) = 1
       /\ \A j \in ExitRecords(i) : logs[j].payload = Lit("<removed>")
       /\ \A j \in RecordsOf(i) :
            logs[j].payload.k = "text" => logs[j].label = "ENTER"
       /\ calls[i].val = Original(calls[i].m, calls[i].invArgs).val

\* a removeOutput operation has returned and another's promise has resolved
C9_Witness ==
  /\ \E i \in Invs : Methods[calls[i].m].removeOutput /\ calls[i].st = "returned"
  /\ \E i \in Invs : Methods[calls[i].m].removeOutput /\ calls[i].st = "resolved"

\* C10: the named mapping has keys only among the declared parameter names
\* (none when there are none), and arguments past the declared parameters
\* are still passed to the original function.
C10_SurplusArgumentsDropped ==
  \A i \in Invs :
    LET params == Methods[calls[i].m].params
    IN  /\ \A j \in 1..Len(Named(i).f) : Named(i).f[j].n \in Range(params)
        /\ Len(calls[i].args) > Len(params)
           => calls[i].invoked /\ Len(calls[i].invArgs) = Len(calls[i].args)

\* the smaller of two numbers
Min(a, b) == IF a < b THEN a ELSE b
\* the arguments that have a declared parameter name
Declared(params, args) == SubSeq(args, 1, Min(Len(params), Len(args)))
\* the records a step appends to logs
NewRecords == {j \in 1..Len(logs') : j > Len(logs)}

\* C11: the ENTER record of an invocation carries the serialization of the
\* named mapping of the arguments as the caller supplied them, and when
\* that mapping satisfies the schema the original function is invoked with
\* the normalized values in declared order.
C11_EnterLogsSuppliedArguments ==
  [][Len(calls') = Len(calls) + 1 =>
       LET c == calls'[Len(calls')]
           params == Methods[c.m].params
           supplied == Declared(params, c.args)
           att == JoiAttempt(_combineObject(params, supplied), Methods[c.m].schema)
       IN  /\ \E j \in NewRecords :
                /\ logs'[j].label = "ENTER"
                /\ logs'[j].payload = FormattedInput(_config, params, supplied).t
           /\ att.ok => /\ c.invoked
                        /\ c.invArgs = NewArgs(params, att.v)]_vars

\* the value a record's payload is the serialization of: the named mapping
\* for ENTER, the result of the original function for EXIT
RawOf(c, label) ==
  IF label = "ENTER" THEN _combineObject(Methods[c.m].params, c.args)
  ELSE c.orig.val

\* the identities visited once v has been
Visit(v, visited) == IF v.k \in {"ref", "fn"} THEN visited \cup {v} ELSE visited

RECURSIVE CycleSafe(_, _, _, _, _), CycleSafeFields(_, _, _, _, _, _), CycleSafeElems(_, _, _, _, _)
\* t renders the value v of a property called name as C12 says, given the
\* identities visited before it in the pass: '[Circular]' for an identity
\* already visited; otherwise an object has its own fields and an array its
\* own elements, and is never '[Circular]'.  When replaced is TRUE the first
\* occurrence of an object may also be what another rule put in its place
\* ('<removed>', the req/res projection).  The result has the identities
\* visited after it.  The objects inside a projection or a replaced value
\* are not followed.
CycleSafe(name, v, t, visited, replaced) ==
  IF v.k \in {"ref", "fn"} /\ v \in visited
  THEN [ok |-> t = Circular, visited |-> visited]
  ELSE IF Deref(v).k = "obj" /\ t.k = "obj" /\ name \notin {"req", "res"}
  THEN CycleSafeFields(Deref(v).f, 1, t.f, 1, Visit(v, visited), replaced)
  ELSE IF Deref(v).k = "arr" /\ t.k = "arr"
  THEN CycleSafeElems(Deref(v).e, t.e, 1, Visit(v, visited), replaced)
  ELSE [ok |-> CASE Deref(v).k = "obj" ->
                      /\ replaced
                      /\ t = Removed \/ (name \in {"req", "res"} /\ t.k = "obj")
                 [] Deref(v).k = "arr" -> t # Circular
                 [] OTHER -> TRUE,
        visited |-> Visit(v, visited)]

\* the fields f from the i-th on against the rendered fields tf from the
\* k-th on: a field is left out only when its value is undefined or a
\* function met for the first time
CycleSafeFields(f, i, tf, k, visited, replaced) ==
  IF i > Len(f) THEN [ok |-> k > Len(tf), visited |-> visited]
  ELSE IF k <= Len(tf) /\ tf[k].n = f[i].n
  THEN Let(CycleSafe(f[i].n, f[i].v, tf[k].v, visited, replaced),
           LAMBDA r : IF r.ok
                      THEN CycleSafeFields(f, i + 1, tf, k + 1, r.visited, replaced)
                      ELSE r)
  ELSE IF f[i].v.k \in {"undef", "fn"} /\ f[i].v \notin visited
  THEN CycleSafeFields(f, i + 1, tf, k, Visit(f[i].v, visited), replaced)
  ELSE [ok |-> FALSE, visited |-> visited]

\* the elements e from the i-th on against the rendered elements te
CycleSafeElems(e, te, i, visited, replaced) ==
  IF Len(e) # Len(te) THEN [ok |-> FALSE, visited |-> visited]
  ELSE IF i > Len(e) THEN [ok |-> TRUE, visited |-> visited]
  ELSE Let(CycleSafe(ToString(i - 1), e[i], te[i], visited, replaced),
           LAMBDA r : IF r.ok THEN CycleSafeElems(e, te, i + 1, r.visited, replaced)
                      ELSE r)

RECURSIVE ReachesItself(_, _)
\* the value v contains a reference cycle: following fields and elements
\* from v leads back to an object on the way (ancestors)
ReachesItself(v, ancestors) ==
  /\ v.k = "ref" \/ v.k = "obj" \/ v.k = "arr"
  /\ \/ v \in ancestors
     \/ \E o \in {Deref(v)} :
          IF o.k = "obj"
          THEN \E j \in 1..Len(o.f) : ReachesItself(o.f[j].v, ancestors \cup {v})
          ELSE \E j \in 1..Len(o.e) : ReachesItself(o.e[j], ancestors \cup {v})

\* what a step must do for C12: each snapshot it logs is the rendering of
\* the value it was made of, cycle-safe from an empty visited set, and a
\* cyclic argument or result of the invocation the step is about has its
\* record (serializing it did not raise)
CyclesRendered(replaced) ==
  /\ \A j \in NewRecords :
       logs'[j].payload.k = "text" =>
         \E raw \in {RawOf(calls'[logs'[j].inv], logs'[j].label)} :
           \E s \in {_sanitizeObject(_config, raw)} :
             /\ s.ok
             /\ logs'[j].payload = Text(Inspect(s.t, 0, _config.depth))
             /\ CycleSafe("", raw, s.t, {}, replaced).ok
  /\ \A i \in 1..Len(calls') :
       LET c == calls'[i]
           entered == \E j \in 1..Len(logs') :
                        /\ logs'[j].inv = i
                        /\ logs'[j].label = "ENTER"
                        /\ logs'[j].payload.k = "text"
           exited == \E j \in 1..Len(logs') :
                       /\ logs'[j].inv = i
                       /\ logs'[j].label = "EXIT"
                       /\ logs'[j].payload.k = "text"
       IN  (i > Len(calls) \/ calls[i] # c) =>
             /\ ReachesItself(RawOf(c, "ENTER"), {}) => entered
             /\ ( /\ c.st # "pending"
                  /\ c.orig.kind \in {"return", "resolve"}
                  /\ ~Methods[c.m].removeOutput
                  /\ ReachesItself(c.orig.val, {}) )
                => exited /\ c.st \in {"returned", "resolved"}

\* C12 as stated: serializing a value that contains a reference cycle does
\* not raise; in every serialize pass, starting from an empty visited set,
\* the first occurrence of each object is rendered with its own fields and
\* every reference to an identity already visited is rendered '[Circular]'.
C12_FirstOccurrenceInFull == [][CyclesRendered(FALSE)]_vars

\* C12 amended: as above, except that the first occurrence of an object
\* under a redacted name is rendered '<removed>' and the first occurrence
\* of a request or response under req or res is rendered as its projection;
\* such an object counts as visited all the same.
C12_CyclesRenderedCircular == [][CyclesRendered(TRUE)]_vars

\* a self-referential object has been logged as an argument, with its fields
\* and its self-reference as '[Circular]', beside an object under a redacted
\* name, and again in full as the result
C12_Witness ==
  \E i \in Invs :
    /\ ReachesItself(calls[i].orig.val, {})
    /\ calls[i].st = "returned"
    /\ \E j \in EnterRecords(i) :
         /\ logs[j].payload.k = "text"
         /\ HasField(logs[j].payload.t, 2, "a", Num(1))
         /\ HasField(logs[j].payload.t, 2, "sub", Circular)
         /\ IsObject(calls[i].args[2])
         /\ HasField(logs[j].payload.t, 1, "token", Removed)
    /\ \E j \in ExitRecords(i) :
         /\ logs[j].payload.k = "text"
         /\ HasField(logs[j].payload.t, 1, "a", Num(1))
         /\ HasField(logs[j].payload.t, 1, "sub", Circular)

RECURSIVE ArraysBounded(_, _, _, _, _)
\* in the sanitized tree t of the value v of a property called name, every
\* array not under a redacted name that is longer than cfg.maxArrayLength is
\* the text 'Array(<length>)' and every other one has all its elements; an
\* array may also be rendered as one of markers
ArraysBounded(cfg, name, v, t, markers) ==
  IF IsArray(v)
  THEN \/ name \in cfg.removeFields
       \/ t \in markers
       \/ LET e == Deref(v).e
          IN  IF Len(e) > cfg.maxArrayLength
              THEN t = Str("Array(" \o ToString(Len(e)) \o ")")
              ELSE /\ t.k = "arr"
                   /\ Len(t.e) = Len(e)
                   /\ \A j \in 1..Len(e) :
                        ArraysBounded(cfg, ToString(j - 1), e[j], t.e[j], markers)
  ELSE IF Deref(v).k = "obj" /\ t.k = "obj" /\ name \notin {"req", "res"}
  THEN \A j \in 1..Len(t.f) :
         ArraysBounded(cfg, t.f[j].n, FieldAt(Deref(v).f, t.f[j].n), t.f[j].v,
                       markers)
  ELSE TRUE

\* what a step must do for C13: each snapshot it logs is the rendering,
\* within the depth limit, of a sanitized tree with its arrays bounded
ArraysRendered(markers) ==
  \A j \in NewRecords :
    logs'[j].payload.k = "text" =>
      \E raw \in {RawOf(calls'[logs'[j].inv], logs'[j].label)} :
        \E s \in {_sanitizeObject(_config, raw)} :
          /\ s.ok
          /\ logs'[j].payload = Text(Inspect(s.t, 0, _config.depth))
          /\ ArraysBounded(_config, "", raw, s.t, markers)

\* C13 as stated: in every serialized snapshot an array longer than the
\* configured maxArrayLength, not under a redacted name, is rendered
\* 'Array(<length>)', and an array of at most maxArrayLength elements keeps
\* its elements.
C13_LongArraysTruncated == [][ArraysRendered({})]_vars

\* C13 amended: as above, except that an array already visited in the same
\* serialize pass is rendered '[Circular]', whatever its length.
C13_LongArraysTruncatedOrCircular == [][ArraysRendered({Circular})]_vars

\* snapshots have been logged with a 31-element array as 'Array(31)' and
\* its second occurrence as '[Circular]', with a 4-element array in full
\* under the default limit and as 'Array(4)' under a limit of 3, and with a
\* 3-element array in full under the limit of 3
C13_Witness ==
  /\ \E j \in Snapshots :
       /\ HasField(logs[j].payload.t, 2, "list", Str("Array(31)"))
       /\ HasField(logs[j].payload.t, 2, "again", Circular)
       /\ HasField(logs[j].payload.t, 2, "items",
                   Arr(<<Num(1), Null, Null,
                         Obj(<<Fld("id", Num(1)), Fld("username", Str("john"))>>)>>))
  /\ \E j \in Snapshots :
       /\ HasField(logs[j].payload.t, 2, "items", Str("Array(4)"))
       /\ _config.maxArrayLength = 3
       /\ \E k \in Snapshots :
            /\ logs[k].inv = logs[j].inv
            /\ logs[k].label = "EXIT"
            /\ HasField(logs[k].payload.t, 1, "edge", Arr(<<Num(1), Num(2), Num(3)>>))

\* C14: a configure call overwrites the keys it names and keeps the others,
\* and every snapshot logged afterwards, by operations decorated before it,
\* is serialized with the removeFields, depth and maxArrayLength then in
\* force.
C14_ConfigureTakesEffect ==
  [][/\ _config' # _config =>
          \E opts \in ConfigureOpts :
            /\ \A key \in DOMAIN opts : _config'[key] = opts[key]
            /\ \A key \in DOMAIN _config \ DOMAIN opts :
                 _config'[key] = _config[key]
     /\ \A j \in NewRecords :
          logs'[j].payload.k = "text" =>
            \E raw \in {RawOf(calls'[logs'[j].inv], logs'[j].label)} :
              \E s \in {_sanitizeObject(_config, raw)} :
                /\ s.ok
                /\ logs'[j].payload = Text(Inspect(s.t, 0, _config.depth))
                /\ logs'[j].removeFields = _config.removeFields]_vars

\* the same operation has been invoked with the same arguments before and
\* after a configure call that names depth and maxArrayLength: the first
\* invocation logged the 4-element array in full and the nested objects,
\* the second logged 'Array(4)' and '[Object]', and both redacted token
C14_Witness ==
  /\ Len(calls) = 2
  /\ calls[1].m = calls[2].m /\ calls[1].args = calls[2].args
  /\ _config.depth = 1 /\ _config.maxArrayLength = 3
  /\ _config.removeFields = DefaultRemoveFields
  /\ \E j \in EnterRecords(1) \cap Snapshots :
       /\ HasField(logs[j].payload.t, 4, "password", Removed)
       /\ HasField(logs[j].payload.t, 1, "token", Removed)
       /\ \E h \in ExitRecords(1) \cap Snapshots :
            /\ HasField(logs[h].payload.t, 1, "edge", Arr(<<Num(1), Num(2), Num(3)>>))
            /\ ~HasField(logs[h].payload.t, 1, "items", Str("Array(4)"))
  /\ \E j \in EnterRecords(2) \cap Snapshots :
       /\ HasField(logs[j].payload.t, 2, "deep", [k |-> "opaque", s |-> "[Object]"])
       /\ HasField(logs[j].payload.t, 1, "token", Removed)
       /\ \E h \in ExitRecords(2) \cap Snapshots :
            HasField(logs[h].payload.t, 1, "items", Str("Array(4)"))

\* resetId was called between invocation i and the later invocation k
ResetBetween(i, k) == \E h \in (i + 1)..k : calls[h].fresh

\* the record emitted when the promise of an invocation settles carries the
\* id of that invocation's own ENTER record and, for ERROR, its own
\* serialized input
SettledWithOwnId ==
  \A i \in Invs :
    calls[i].st \in {"resolved", "rejected"} =>
      /\ Cardinality(TerminalRecords(i)) = 1
      /\ \A j \in TerminalRecords(i) : \A e \in EnterRecords(i) :
           /\ logs[j].ctx = <<calls[i].id>>
           /\ logs[j].ctx = logs[e].ctx
           /\ logs[j].label = "ERROR" => logs[j].input = <<logs[e].payload>>

\* C15 as stated: invocations in flight at once hold distinct correlation
\* ids, even if resetId or further invocations occur in between, and the
\* EXIT or ERROR record of a settlement carries its own invocation's id and
\* input.
C15_InFlightIdsDistinct ==
  /\ \A i \in Invs : \A k \in Invs :
       (i < k /\ calls[i].st = "pending" /\ calls[k].st = "pending")
       => calls[i].id # calls[k].id
  /\ SettledWithOwnId

\* C15 amended: invocations in flight at once hold distinct correlation ids
\* when resetId was not called between them, and in every case the EXIT or
\* ERROR record of a settlement carries its own invocation's id and input.
C15_SettlementCarriesOwnId ==
  /\ \A i \in Invs : \A k \in Invs :
       (i < k /\ calls[i].st = "pending" /\ calls[k].st = "pending"
        /\ ~ResetBetween(i, k))
       => calls[i].id # calls[k].id
  /\ SettledWithOwnId

\* two invocations were in flight at once, with a resetId between their
\* calls, and settled in the reverse order, one resolving and one rejecting
C15_Witness ==
  /\ Len(calls) = 2
  /\ calls[2].fresh
  /\ {calls[1].st, calls[2].st} = {"resolved", "rejected"}
  /\ \A e \in EnterRecords(2) : \A j \in TerminalRecords(1) : \A h \in TerminalRecords(2) :
       e < h /\ h < j

=============================================================================
